---- MODULE Spec2Model ----
(***************************************************************************)
(* Model of code.py (pypaint): the Paint control loop, its press / release *)
(* / motion handlers, the bounded pixel write _plot and the line           *)
(* rasterizer _goto.                                                       *)
(*                                                                         *)
(* Five specifications share the definitions below:                        *)
(*   Spec      the program as shipped: construction (pointer source chosen *)
(*             from the board's capabilities), then the run loop polling   *)
(*             TouchscreenPoller or CursorPoller;                          *)
(*   SpecIface the run loop driven by any pointer source whose poll()      *)
(*             returns (bool, (x, y) or None), as the poll docstrings say; *)
(*   SpecGoto  _goto stepped one loop iteration at a time on an unbounded  *)
(*             grid, for every pair of endpoints in a bounded square;      *)
(*   SpecPlot  _plot applied to arbitrary coordinates and colours;         *)
(*   SpecLive  the run loop without a limit on its iterations, _goto       *)
(*             stepped inside the tick, under weak fairness.               *)
(***************************************************************************)
EXTENDS Integers, Sequences, FiniteSets, TLC

\* ---------------------------------------------------------------- bounds
\* Width and height of the modelled display (board.DISPLAY.width/height).
FbW == 3
FbH == 2
\* Endpoints of rasterized segments range over -MaxCoord..MaxCoord.
MaxCoord == 5
\* Iterations of the loop of Paint.run that are explored.
MaxTicks == 3
\* Calls of _plot that SpecPlot explores.
MaxPlots == 2

\* ------------------------------------------------------------- constants
\* self._pencolor = 7
PenColor == 7
\* len(Color.colors)
NumColors == 8

\* The absent position (Python None); a present position is <<x, y>>.
None == <<>>

Abs(n) == IF n < 0 THEN -n ELSE n

SeqToSet(s) == {s[i] : i \in 1..Len(s)}

\* ----------------------------------------------------------- framebuffer
Cells == (0..(FbW - 1)) \X (0..(FbH - 1))

\* displayio.Bitmap(w, h, 5): every cell starts at 0.
BlankBitmap == [c \in Cells |-> 0]

\* Bitmap.__setitem__ accepts (x, y) only inside the bitmap; anything else
\* (negative coordinates included, the index being unsigned) raises
\* IndexError.
InBitmap(x, y) == x >= 0 /\ x < FbW /\ y >= 0 /\ y < FbH

\* A plausible slip: out-of-range coordinates are clamped to the border.
PlotClamped(bitmap, x, y, c) ==
    LET cx == IF x < 0 THEN 0 ELSE IF x >= FbW THEN FbW - 1 ELSE x
        cy == IF y < 0 THEN 0 ELSE IF y >= FbH THEN FbH - 1 ELSE y
    IN  [bitmap EXCEPT ![<<cx, cy>>] = c]

\* Paint._plot: the write, with IndexError swallowed.
Plot(bitmap, x, y, c) ==
    IF InBitmap(x, y) THEN [bitmap EXCEPT ![<<x, y>>] = c] ELSE bitmap

RECURSIVE PlotAllUntilMiss(_, _, _)
\* A plausible slip: IndexError is caught around the whole loop, so the
\* first pixel off the bitmap ends the drawing.
PlotAllUntilMiss(bitmap, pixels, c) ==
    IF pixels = <<>> THEN bitmap
    ELSE IF ~InBitmap(Head(pixels)[1], Head(pixels)[2]) THEN bitmap
    ELSE PlotAllUntilMiss(Plot(bitmap, Head(pixels)[1], Head(pixels)[2], c),
                          Tail(pixels), c)

RECURSIVE PlotAll(_, _, _)
\* The writes of one _goto call, in emission order.
PlotAll(bitmap, pixels, c) ==
    IF pixels = <<>> THEN bitmap
    ELSE PlotAll(Plot(bitmap, Head(pixels)[1], Head(pixels)[2], c),
                 Tail(pixels), c)

\* ------------------------------------------------------------ rasterizer
\* A plausible slip: the half-step bias is left out (err = 0).
ErrInit2Zero(dx) == 0

\* A plausible slip: the half is rounded up (err = (dx + 1) // 2).
ErrInit2RoundUp(dx) == 2 * ((dx + 1) \div 2)

\* Line 201: err = dx / 2 is a true division, so err is an integer or an
\* integer plus one half.  The model keeps twice its value (err2), which
\* is exact.
ErrInit2(dx) == dx

\* A plausible slip: the walk direction is never reversed.
RevNever(x0, x1) == FALSE

\* Line 196: the walk goes downward when the start is past the end.
Rev(x0, x1) == x0 > x1

\* A plausible slip: the secondary coordinate always steps upward.
YStepUp(y0, y1) == 1

\* Lines 202-204: the direction of the secondary coordinate.
YStep(y0, y1) == IF y0 < y1 THEN 1 ELSE -1

\* A plausible slip: the secondary coordinate also steps on err = 0.
ErrNegativeOrZero(err2) == err2 <= 0

\* Line 226: the test that advances the secondary coordinate.
ErrNegative(err2) == err2 < 0

\* Lines 182-204: the state of _goto on entry to its loop.  x0, y0, x1, y1
\* are the primary / secondary coordinates after the steep swap; out is the
\* sequence of pixels passed to _plot so far; x, y are self._x, self._y.
GotoEntry(start, end, tx, ty) ==
    LET ax0 == start[1]
        ay0 == start[2]
        ax1 == end[1]
        ay1 == end[2]
        steep == Abs(ay1 - ay0) > Abs(ax1 - ax0)
        x0 == IF steep THEN ay0 ELSE ax0
        y0 == IF steep THEN ax0 ELSE ay0
        x1 == IF steep THEN ay1 ELSE ax1
        y1 == IF steep THEN ax1 ELSE ay1
        rev == Rev(x0, x1)
        dx == IF rev THEN x0 - x1 ELSE x1 - x0
    IN  [x0 |-> x0, y0 |-> y0, x1 |-> x1, y1 |-> y1,
         steep |-> steep, rev |-> rev,
         dx |-> dx, dy |-> Abs(y1 - y0),
         err2 |-> ErrInit2(dx),
         ystep |-> YStep(y0, y1),
         x |-> tx, y |-> ty,
         out |-> <<>>]

\* Line 206: the loop condition.
GotoCond(g) == (~g.rev /\ g.x0 <= g.x1) \/ (g.rev /\ g.x1 <= g.x0)

\* A plausible slip: the steep branch plots (x0, y0) like the other one.
GotoBodyNoUnswap(g) ==
    LET px == <<g.x0, g.y0>>
        e1 == g.err2 - 2 * g.dy
        neg == e1 < 0
    IN  [g EXCEPT !.out = Append(g.out, px),
                  !.x = px[1],
                  !.y = px[2],
                  !.y0 = IF neg THEN g.y0 + g.ystep ELSE g.y0,
                  !.err2 = IF neg THEN e1 + 2 * g.dx ELSE e1,
                  !.x0 = IF g.rev THEN g.x0 - 1 ELSE g.x0 + 1]

\* Lines 207-232: one iteration of the loop.
GotoBody(g) ==
    LET px == IF g.steep THEN <<g.y0, g.x0>> ELSE <<g.x0, g.y0>>
        e1 == g.err2 - 2 * g.dy
        neg == ErrNegative(e1)
    IN  [g EXCEPT !.out = Append(g.out, px),
                  !.x = px[1],
                  !.y = px[2],
                  !.y0 = IF neg THEN g.y0 + g.ystep ELSE g.y0,
                  !.err2 = IF neg THEN e1 + 2 * g.dx ELSE e1,
                  !.x0 = IF g.rev THEN g.x0 - 1 ELSE g.x0 + 1]

RECURSIVE GotoRun(_)
GotoRun(g) == IF GotoCond(g) THEN GotoRun(GotoBody(g)) ELSE g

\* The pixels one call _goto(start, end) passes to _plot, in order.
GotoPixels(start, end) == GotoRun(GotoEntry(start, end, 0, 0)).out

\* ----------------------------------------------------------------- state
VARIABLES
    pc,             \* "init", "running", "failed" (AttributeError in
                    \* __init__) or "crashed" (an error escaped run)
    hw,             \* attributes the board module has
    poller,         \* self._poller: "none", "touch", "cursor" or "any"
    pressed,        \* self._pressed
    last_pressed,   \* self._last_pressed
    location,       \* self._location
    last_location,  \* self._last_location
    pencolor,       \* self._pencolor
    fb,             \* self._fg_bitmap
    ticks,          \* iterations of the loop of run so far
    ev,             \* what the last iteration of run called
    scen,           \* progress of a press-move-release stroke begun on a
                    \* blank bitmap
    stroke,         \* the positions sampled in the current run of contact
                    \* ticks and the bitmap as it was before the run
    gstart, gend,   \* SpecGoto: the arguments of the _goto call
    g,              \* SpecGoto: the locals of the _goto call
    gdone,          \* SpecGoto: the call has returned
    bm,             \* SpecPlot: the bitmap written by _plot
    plotcall,       \* SpecPlot: the arguments of the last _plot call, if any
    nplots          \* SpecPlot: the number of _plot calls so far

paintVars == <<pc, hw, poller, pressed, last_pressed, location, last_location,
               pencolor, fb, ticks, ev, scen, stroke>>
gotoVars == <<gstart, gend, g, gdone>>
plotVars == <<bm, plotcall, nplots>>
vars == <<pc, hw, poller, pressed, last_pressed, location, last_location,
          pencolor, fb, ticks, ev, scen, stroke, gstart, gend, g, gdone,
          bm, plotcall, nplots>>

\* ------------------------------------------------------------- SpecGoto
Coord == (-MaxCoord)..MaxCoord
Points == Coord \X Coord

\* before / penbefore are the bitmap and the pen colour as the tick found
\* them, source is the pointer source the tick polled.
NoEvents == [press |-> <<>>, release |-> <<>>, motion |-> <<>>,
             poke |-> 0, polls |-> 0, raised |-> FALSE,
             before |-> BlankBitmap, penbefore |-> PenColor,
             source |-> "none"]
NoScen == [phase |-> 0, p |-> None, q |-> None]
NoStroke == [pts |-> <<>>, base |-> BlankBitmap]

\* Paint.__init__, lines 161-166 and 139, before the pointer source exists.
PaintFresh ==
    /\ pressed = FALSE
    /\ last_pressed = FALSE
    /\ location = None
    /\ last_location = None
    /\ pencolor = PenColor
    /\ fb = BlankBitmap
    /\ ticks = 0
    /\ ev = NoEvents
    /\ scen = NoScen
    /\ stroke = NoStroke

PaintIdle == pc = "idle" /\ hw = {} /\ poller = "none" /\ PaintFresh
GotoIdle == gstart = None /\ gend = None /\ g = <<>> /\ gdone = TRUE
PlotIdle == bm = BlankBitmap /\ plotcall = <<>> /\ nplots = 0

InitGoto ==
    /\ PaintIdle
    /\ PlotIdle
    /\ gstart \in Points
    /\ gend \in Points
    /\ g = GotoEntry(gstart, gend, FbW \div 2, FbH \div 2)
    /\ gdone = FALSE

\* One iteration of the while loop of _goto.
GotoIter ==
    /\ ~gdone
    /\ GotoCond(g)
    /\ g' = GotoBody(g)
    /\ UNCHANGED <<gstart, gend, gdone>>
    /\ UNCHANGED paintVars
    /\ UNCHANGED plotVars

\* The loop condition fails and _goto returns.
GotoReturn ==
    /\ ~gdone
    /\ ~GotoCond(g)
    /\ gdone' = TRUE
    /\ UNCHANGED <<gstart, gend, g>>
    /\ UNCHANGED paintVars
    /\ UNCHANGED plotVars

NextGoto == GotoIter \/ GotoReturn

SpecGoto == InitGoto /\ [][NextGoto]_vars

\* ----------------------------------------------------------- control loop
Capabilities == {"TOUCH_XL", "BUTTON_CLOCK"}

\* Positions a pointer source reports: the display plus one column and one
\* row past its right and bottom edges (CursorPoller adds half the cursor
\* size to the cursor position, so it can report such positions).
Positions == (0..FbW) \X (0..FbH)

Sample(c, p) == [contact |-> c, position |-> p]

\* TouchscreenPoller.poll: (p is not None, p).
TouchSamples == {Sample(FALSE, None)} \cup {Sample(TRUE, p) : p \in Positions}

\* CursorPoller.poll: a location only when the button is held.
CursorSamples == {Sample(FALSE, None)} \cup {Sample(TRUE, p) : p \in Positions}

\* Every value of the type the poll docstrings give: a bool and (x, y) or
\* None.
AnySamples == {Sample(c, p) : c \in BOOLEAN, p \in Positions \cup {None}}

PollResults(src) ==
    CASE src = "touch" -> TouchSamples
      [] src = "cursor" -> CursorSamples
      [] src = "any" -> AnySamples
      [] OTHER -> {}

\* A plausible slip: the two flags are exchanged.
WasJustPressedSwapped(p, lp) == lp /\ ~p

\* Paint._was_just_pressed
WasJustPressed(p, lp) == p /\ ~lp

\* Paint._was_just_released
WasJustReleased(p, lp) == ~p /\ lp

\* A plausible slip: only a change of x counts as a move.
DidMoveXOnly(loc, lastloc) ==
    /\ loc # None
    /\ lastloc # None
    /\ loc[1] # lastloc[1]

\* Paint._did_move (None, which is falsy, when a location is missing).
DidMove(loc, lastloc) ==
    /\ loc # None
    /\ lastloc # None
    /\ (loc[1] # lastloc[1] \/ loc[2] # lastloc[2])

\* A plausible slip: the test of self._pressed is left out.
MotionCondNoPressed(moved, p) == moved

\* Line 278: the condition under which run calls _handle_motion.
MotionCond(moved, p) == moved /\ p

\* Line 274: the condition under which run calls _handle_press.
PressCond(p, lp) == WasJustPressed(p, lp)

\* Line 276 (elif): the condition under which run calls _handle_release.
ReleaseCond(p, lp) == ~PressCond(p, lp) /\ WasJustReleased(p, lp)

\* Line 277: the argument run passes to _handle_release.
ReleaseArg(loc, lastloc) == loc

\* A plausible slip: a guard `if not location[0]` that raises at x = 0.
HandlePressRaisesFalsy(loc) == loc = None \/ loc[1] = 0

\* Paint._handle_press: location[0] raises TypeError when location is None;
\* otherwise one pixel is written and the pointer source is poked.
HandlePressRaises(loc) == loc = None

\* A plausible slip: the colour written is one past the pen colour.
HandlePressNextColor(bitmap, loc, c) == Plot(bitmap, loc[1], loc[2], c + 1)

HandlePress(bitmap, loc, c) == Plot(bitmap, loc[1], loc[2], c)

\* A plausible slip: the segment starts at the origin, not at start.
HandleMotionFromOrigin(bitmap, start, end, c) ==
    PlotAll(bitmap, GotoPixels(<<0, 0>>, end), c)

\* Paint._handle_motion: _goto(start, end).
HandleMotion(bitmap, start, end, c) ==
    PlotAll(bitmap, GotoPixels(start, end), c)

\* No contact and no position: the sample the constructor leaves.
Untouched == ~pressed /\ location = None /\ fb = BlankBitmap

\* Progress of the stroke "press at P, move to Q # P, release", P and Q on
\* the display, begun in an Untouched state.
ScenNext(s) ==
    IF Untouched /\ s.contact /\ s.position # None
           /\ s.position \in Cells
      THEN [phase |-> 1, p |-> s.position, q |-> None]
    ELSE IF scen.phase = 1 /\ s.contact /\ s.position # None
           /\ s.position \in Cells /\ s.position # scen.p
      THEN [phase |-> 2, p |-> scen.p, q |-> s.position]
    ELSE IF scen.phase = 2 /\ ~s.contact
      THEN [phase |-> 3, p |-> scen.p, q |-> scen.q]
    ELSE NoScen

\* The run of consecutive contact ticks that the sample s starts (after a
\* tick without contact) or continues.
StrokeNext(s) ==
    IF ~s.contact \/ s.position = None THEN NoStroke
    ELSE IF ~pressed THEN [pts |-> <<s.position>>, base |-> fb]
    ELSE IF stroke.pts # <<>>
      THEN [pts |-> Append(stroke.pts, s.position), base |-> stroke.base]
    ELSE NoStroke

\* One iteration of the loop of Paint.run on the sample s that poll returns:
\* _update, the press / release branch, the motion branch.
Tick(s) ==
    /\ pc = "running"
    /\ ticks < MaxTicks
    /\ ticks' = ticks + 1
    /\ last_pressed' = pressed
    /\ last_location' = location
    /\ pressed' = s.contact
    /\ location' = s.position
    /\ LET jp == PressCond(s.contact, pressed)
           jr == ReleaseCond(s.contact, pressed)
           raises == jp /\ HandlePressRaises(s.position)
           fb1 == IF jp /\ ~raises
                    THEN HandlePress(fb, s.position, pencolor) ELSE fb
           mv == ~raises /\ MotionCond(DidMove(s.position, location), s.contact)
           fb2 == IF mv THEN HandleMotion(fb1, location, s.position, pencolor)
                  ELSE fb1
       IN  /\ fb' = fb2
           /\ pc' = IF raises THEN "crashed" ELSE "running"
           /\ ev' = [press |-> IF jp THEN <<s.position>> ELSE <<>>,
                     release |-> IF jr THEN <<ReleaseArg(s.position, location)>>
                                 ELSE <<>>,
                     motion |-> IF mv THEN <<<<location, s.position>>>>
                                ELSE <<>>,
                     poke |-> IF jp /\ ~raises THEN 1 ELSE 0,
                     polls |-> 1,
                     raised |-> raises,
                     before |-> fb,
                     penbefore |-> pencolor,
                     source |-> poller]
    /\ scen' = ScenNext(s)
    /\ stroke' = StrokeNext(s)
    /\ UNCHANGED <<hw, poller, pencolor>>
    /\ UNCHANGED gotoVars
    /\ UNCHANGED plotVars

\* A plausible slip: the two hasattr tests are in the other order.
ConstructCursorFirst ==
    /\ pc = "init"
    /\ IF "BUTTON_CLOCK" \in hw
         THEN poller' = "cursor" /\ pc' = "running"
       ELSE IF "TOUCH_XL" \in hw
         THEN poller' = "touch" /\ pc' = "running"
       ELSE poller' = "none" /\ pc' = "failed"
    /\ UNCHANGED <<hw, pressed, last_pressed, location, last_location,
                   pencolor, fb, ticks, ev, scen, stroke>>
    /\ UNCHANGED <<gstart, gend, g, gdone>>
    /\ UNCHANGED <<bm, plotcall, nplots>>

\* Paint.__init__, lines 153-159: the pointer source is chosen from the
\* board's attributes, or AttributeError ends the program; then
\* painter.run() starts.
Construct ==
    /\ pc = "init"
    /\ IF "TOUCH_XL" \in hw
         THEN poller' = "touch" /\ pc' = "running"
       ELSE IF "BUTTON_CLOCK" \in hw
         THEN poller' = "cursor" /\ pc' = "running"
       ELSE poller' = "none" /\ pc' = "failed"
    /\ UNCHANGED <<hw, pressed, last_pressed, location, last_location,
                   pencolor, fb, ticks, ev, scen, stroke>>
    /\ UNCHANGED gotoVars
    /\ UNCHANGED plotVars

\* self._poller.poll() and the rest of the loop body.
Poll == \E s \in PollResults(poller) : Tick(s)

Init ==
    /\ pc = "init"
    /\ hw \in SUBSET Capabilities
    /\ poller = "none"
    /\ PaintFresh
    /\ GotoIdle
    /\ PlotIdle

Next == Construct \/ Poll

Spec == Init /\ [][Next]_vars

\* The run loop with an arbitrary pointer source already plugged in.
InitIface ==
    /\ pc = "running"
    /\ hw = {}
    /\ poller = "any"
    /\ PaintFresh
    /\ GotoIdle
    /\ PlotIdle

NextIface == Poll

SpecIface == InitIface /\ [][NextIface]_vars

\* -------------------------------------------------------------- SpecLive
\* The run loop without a limit on its iterations (ticks counts them modulo
\* MaxTicks + 1) and with _goto executed one loop iteration at a time, so
\* that a tick is over only when the rasterizer has returned.  The pointer
\* source reports a position whenever it reports contact.
LivePositions == {<<0, 0>>, <<FbW - 1, FbH - 1>>, <<FbW, 0>>}

LiveSamples ==
    {Sample(TRUE, p) : p \in LivePositions}
        \cup {Sample(FALSE, p) : p \in LivePositions \cup {None}}

InitLive ==
    /\ pc = "running"
    /\ hw = {}
    /\ poller = "any"
    /\ PaintFresh
    /\ GotoIdle
    /\ PlotIdle

\* Lines 273-279 up to the call of _goto: _update, the press / release
\* branch and the test of the motion branch.
LiveTick(s) ==
    /\ pc = "running"
    /\ ticks' = (ticks + 1) % (MaxTicks + 1)
    /\ last_pressed' = pressed
    /\ last_location' = location
    /\ pressed' = s.contact
    /\ location' = s.position
    /\ LET jp == PressCond(s.contact, pressed)
           jr == ReleaseCond(s.contact, pressed)
           raises == jp /\ HandlePressRaises(s.position)
           mv == ~raises /\ MotionCond(DidMove(s.position, location), s.contact)
       IN  /\ fb' = IF jp /\ ~raises
                      THEN HandlePress(fb, s.position, pencolor) ELSE fb
           /\ pc' = IF raises THEN "crashed"
                    ELSE IF mv THEN "goto" ELSE "running"
           /\ ev' = [press |-> IF jp THEN <<s.position>> ELSE <<>>,
                     release |-> IF jr THEN <<ReleaseArg(s.position, location)>>
                                 ELSE <<>>,
                     motion |-> IF mv THEN <<<<location, s.position>>>>
                                ELSE <<>>,
                     poke |-> IF jp /\ ~raises THEN 1 ELSE 0,
                     polls |-> 1,
                     raised |-> raises,
                     before |-> fb,
                     penbefore |-> pencolor,
                     source |-> poller]
           /\ IF mv
                THEN /\ gstart' = location
                     /\ gend' = s.position
                     /\ g' = GotoEntry(location, s.position,
                                       IF gstart = None THEN FbW \div 2 ELSE g.x,
                                       IF gstart = None THEN FbH \div 2 ELSE g.y)
                     /\ gdone' = FALSE
                ELSE UNCHANGED gotoVars
    /\ UNCHANGED <<hw, poller, pencolor, scen, stroke>>
    /\ UNCHANGED plotVars

LivePoll == \E s \in LiveSamples : LiveTick(s)

\* Lines 206-232 inside a tick: one iteration of the loop of _goto, its
\* pixel written through _plot.
LiveGotoIter ==
    /\ pc = "goto"
    /\ GotoCond(g)
    /\ g' = GotoBody(g)
    /\ fb' = Plot(fb, g'.x, g'.y, pencolor)
    /\ UNCHANGED <<pc, hw, poller, pressed, last_pressed, location,
                   last_location, pencolor, ticks, ev, scen, stroke>>
    /\ UNCHANGED <<gstart, gend, gdone>>
    /\ UNCHANGED plotVars

\* The loop of _goto ends, _handle_motion returns and the tick is over.
LiveGotoReturn ==
    /\ pc = "goto"
    /\ ~GotoCond(g)
    /\ pc' = "running"
    /\ gdone' = TRUE
    /\ UNCHANGED <<hw, poller, pressed, last_pressed, location,
                   last_location, pencolor, fb, ticks, ev, scen, stroke>>
    /\ UNCHANGED <<gstart, gend, g>>
    /\ UNCHANGED plotVars

NextLive == LivePoll \/ LiveGotoIter \/ LiveGotoReturn

\* The program is single-threaded and poll returns promptly: whatever
\* statement is next gets executed.
SpecLive == InitLive /\ [][NextLive]_vars /\ WF_vars(NextLive)

\* -------------------------------------------------------------- SpecPlot
\* Coordinates and colours handed to _plot: every cell of the bitmap and
\* one column / row on each side of it.
PlotXs == (-1)..FbW
PlotYs == (-1)..FbH
PlotColors == {0, PenColor}

InitPlot ==
    /\ PaintIdle
    /\ GotoIdle
    /\ PlotIdle

\* One call self._plot(x, y, c).
PlotCall ==
    /\ nplots < MaxPlots
    /\ nplots' = nplots + 1
    /\ \E x \in PlotXs, y \in PlotYs, c \in PlotColors :
         /\ bm' = Plot(bm, x, y, c)
         /\ plotcall' = <<x, y, c>>
    /\ UNCHANGED paintVars
    /\ UNCHANGED gotoVars

NextPlot == PlotCall

SpecPlot == InitPlot /\ [][NextPlot]_vars

\* ======================================================== rasterizer claims
Max(a, b) == IF a > b THEN a ELSE b
Min(a, b) == IF a < b THEN a ELSE b
Sgn(n) == IF n > 0 THEN 1 ELSE IF n < 0 THEN -1 ELSE 0

\* Extent of the segment a-b along its dominant and its other axis.
Major(a, b) == Max(Abs(b[1] - a[1]), Abs(b[2] - a[2]))
Minor(a, b) == Min(Abs(b[1] - a[1]), Abs(b[2] - a[2]))

\* Some step i of the walk lies exactly halfway between two cells of the
\* secondary axis: i * Minor / Major is an integer plus one half.
HasTie(a, b) ==
    \E i \in 1..(Major(a, b) - 1) :
        (2 * i * Minor(a, b)) % (2 * Major(a, b)) = Major(a, b)

\* C1 (as stated): for every pair of endpoints the pixels emitted for A->B
\* and for B->A are the same set.
C1_SymmetricUnderSwap ==
    gdone => SeqToSet(g.out) = SeqToSet(GotoPixels(gend, gstart))

\* C1 (amended): the pixels emitted for A->B and for B->A are the same set
\* exactly when no step of the walk is a halfway tie; at a tie the walk
\* from either end stays on its own side, so the two sets differ.
C1_SymmetricIffNoTie ==
    gdone =>
        ((SeqToSet(g.out) = SeqToSet(GotoPixels(gend, gstart)))
            <=> ~HasTie(gstart, gend))

C1_Witness ==
    /\ gdone
    /\ gstart = <<0, 0>>
    /\ gend = <<3, 1>>
    /\ ~HasTie(gstart, gend)
    /\ g.out = <<<<0, 0>>, <<1, 0>>, <<2, 1>>, <<3, 1>>>>

\* Index (1 for x, 2 for y) of the dominant axis of the segment a-b.
DominantAxis(a, b) ==
    IF Abs(b[2] - a[2]) <= Abs(b[1] - a[1]) THEN 1 ELSE 2

\* C9: the rasterizer emits max(|x1-x0|, |y1-y0|) + 1 pixels and every
\* dominant-axis coordinate between the endpoints is emitted exactly once.
C9_OnePixelPerDominantStep ==
    gdone =>
        LET k == DominantAxis(gstart, gend)
            lo == Min(gstart[k], gend[k])
            hi == Max(gstart[k], gend[k])
        IN  /\ Len(g.out) = Major(gstart, gend) + 1
            /\ {g.out[i][k] : i \in 1..Len(g.out)} = lo..hi
            /\ \A i, j \in 1..Len(g.out) :
                   g.out[i][k] = g.out[j][k] => i = j

C9_Witness ==
    /\ gdone
    /\ gstart = <<1, 4>>
    /\ gend = <<0, -2>>
    /\ g.steep
    /\ g.rev
    /\ Len(g.out) = 7

\* The cells of the straight run from a to b when the segment is
\* horizontal, vertical, a single point or an exact diagonal.
StraightCells(a, b) ==
    {<<a[1] + i * Sgn(b[1] - a[1]), a[2] + i * Sgn(b[2] - a[2])>> :
        i \in 0..Major(a, b)}

\* C10: a horizontal, vertical or single-point segment emits exactly the
\* cells of its row or column between the endpoints and the secondary
\* coordinate never steps; an exact diagonal emits exactly its diagonal
\* cells.  The four segments the spec lists give the sets it lists.
C10_AxisAlignedAndDiagonalExact ==
    gdone =>
        /\ (Minor(gstart, gend) = 0 \/ Minor(gstart, gend) = Major(gstart, gend))
              => /\ SeqToSet(g.out) = StraightCells(gstart, gend)
                 /\ Len(g.out) = Major(gstart, gend) + 1
        /\ Minor(gstart, gend) = 0 => g.y0 = g.y1
        /\ (gstart = <<0, 0>> /\ gend = <<5, 0>>)
              => SeqToSet(g.out) = {<<x, 0>> : x \in 0..5}
        /\ (gstart = <<0, 0>> /\ gend = <<0, 5>>)
              => SeqToSet(g.out) = {<<0, y>> : y \in 0..5}
        /\ (gstart = <<0, 0>> /\ gend = <<3, 3>>)
              => SeqToSet(g.out) = {<<0, 0>>, <<1, 1>>, <<2, 2>>, <<3, 3>>}
        /\ (gstart = <<0, 0>> /\ gend = <<0, 0>>)
              => g.out = <<<<0, 0>>>>

C10_Witness ==
    /\ gdone
    /\ gstart = <<0, 0>>
    /\ gend = <<3, -3>>
    /\ g.out = <<<<0, 0>>, <<1, -1>>, <<2, -2>>, <<3, -3>>>>

\* ============================================================ _plot claims
\* C8: a call _plot(x, y, c) with (x, y) outside the bitmap changes no cell
\* (it is neither clamped nor wrapped) and one with (x, y) inside sets
\* exactly that cell to c.
C8_PlotWritesOnlyInRange ==
    [][nplots' # nplots =>
         /\ DOMAIN bm' = Cells
         /\ \A cell \in Cells :
               bm'[cell] = IF cell = <<plotcall'[1], plotcall'[2]>>
                             THEN plotcall'[3] ELSE bm[cell]]_vars

C8_Witness ==
    /\ nplots = 2
    /\ plotcall = <<FbW, 0, PenColor>>
    /\ bm = BlankBitmap

\* ====================================================== control loop claims
\* After a tick, last_pressed / last_location are the previous sample and
\* pressed / location the current one.
Ticked == ev.polls = 1

\* C2: from a blank bitmap with no contact, the ticks "contact at P, contact
\* at Q # P, no contact" (P and Q on the display) leave exactly the pixels
\* of the segment P->Q, P and Q among them, at the pen colour and every
\* other cell at 0; the segment (10,10)->(15,10) is the cells (10,10)
\* through (15,10).
C2_StrokePaintsExactlySegment ==
    /\ scen.phase = 3 =>
          LET seg == SeqToSet(GotoPixels(scen.p, scen.q))
          IN  /\ scen.p \in seg
              /\ scen.q \in seg
              /\ \A cell \in Cells :
                    fb[cell] = IF cell \in seg THEN pencolor ELSE 0
    /\ SeqToSet(GotoPixels(<<10, 10>>, <<15, 10>>)) = {<<x, 10>> : x \in 10..15}

C2_Witness ==
    /\ scen = [phase |-> 3, p |-> <<0, 0>>, q |-> <<2, 1>>]
    /\ ~pressed
    /\ fb[<<1, 0>>] = PenColor
    /\ fb[<<1, 1>>] = 0

\* C3 (as stated): the motion handler is invoked in a tick if and only if
\* the previous and the current sample both have contact, both have a
\* position and the positions differ, and then it is given (previous
\* position, current position).
C3_MotionIffBothPressedAndMoved ==
    Ticked =>
        /\ (ev.motion # <<>>) <=>
              /\ last_pressed
              /\ pressed
              /\ last_location # None
              /\ location # None
              /\ location # last_location
        /\ ev.motion # <<>> => ev.motion = <<<<last_location, location>>>>

\* C4: in a tick whose previous sample has no contact and whose current
\* sample has contact, the press handler is invoked exactly once, with the
\* current position, and the release handler is not invoked.
C4_PressOnRisingEdge ==
    (Ticked /\ ~last_pressed /\ pressed) =>
        /\ ev.press = <<location>>
        /\ ev.release = <<>>

C4_Witness ==
    /\ Ticked
    /\ ~last_pressed
    /\ pressed
    /\ last_location = None
    /\ location = <<1, 1>>
    /\ ev.press = <<<<1, 1>>>>
    /\ fb = [BlankBitmap EXCEPT ![<<1, 1>>] = PenColor]

\* C5 (as stated): in a tick whose previous sample has contact and whose
\* current sample has none, the release handler is invoked exactly once
\* with the previous sample's position.
C5_ReleaseGetsPreviousPosition ==
    (Ticked /\ last_pressed /\ ~pressed) => ev.release = <<last_location>>

\* C6: in a tick where neither sample has contact, or both have and the
\* position is the same, no handler is invoked, the pointer source is not
\* poked and the bitmap and the pen colour stay as they were.
C6_NoEventNoEffect ==
    (/\ Ticked
     /\ \/ ~last_pressed /\ ~pressed
        \/ last_pressed /\ pressed /\ location = last_location)
    => /\ ev.press = <<>>
       /\ ev.release = <<>>
       /\ ev.motion = <<>>
       /\ ev.poke = 0
       /\ ~ev.raised
       /\ fb = ev.before
       /\ pencolor = ev.penbefore

C6_Witness ==
    /\ Ticked
    /\ last_pressed
    /\ pressed
    /\ location = <<2, 1>>
    /\ last_location = <<2, 1>>
    /\ ev.motion = <<>>
    /\ ev.press = <<>>
    /\ fb[<<2, 1>>] = PenColor

\* C7 (as stated): a tick whose sample has contact but no position is
\* handled as if there were no contact: neither the press nor the motion
\* handler runs, no error escapes and the loop goes on.
C7_MissingPositionDegrades ==
    (Ticked /\ pressed /\ location = None) =>
        /\ ev.press = <<>>
        /\ ev.motion = <<>>
        /\ ~ev.raised
        /\ pc = "running"

\* ========================================================== startup claims
\* C11: without touch and cursor capability construction fails before the
\* loop starts, so nothing is polled and no pixel is written; otherwise one
\* pointer source is selected, the touchscreen when both are present, and
\* it stays the source polled in every tick.
C11_PointerSourceSelection ==
    /\ pc = "init" => (ticks = 0 /\ ev = NoEvents /\ fb = BlankBitmap)
    /\ pc # "init" =>
          /\ (hw = {}) <=> (pc = "failed")
          /\ pc = "failed" =>
                /\ poller = "none"
                /\ ticks = 0
                /\ ev = NoEvents
                /\ fb = BlankBitmap
          /\ "TOUCH_XL" \in hw => poller = "touch"
          /\ hw = {"BUTTON_CLOCK"} => poller = "cursor"
    /\ Ticked =>
          /\ poller \in {"touch", "cursor"}
          /\ ev.source = poller

C11_Witness ==
    /\ pc = "failed"
    /\ hw = {}
    /\ poller = "none"
    /\ ticks = 0

\* ====================================================== framebuffer claims
\* C12: the pen colour is always an index of the palette (0 <= index < 8)
\* and every cell of the bitmap holds 0 or the pen colour.
C12_ValidPaletteIndices ==
    /\ pencolor \in 0..(NumColors - 1)
    /\ \A cell \in Cells : fb[cell] \in {0, pencolor}
    /\ DOMAIN fb = Cells

C12_Witness ==
    /\ ticks = MaxTicks
    /\ fb[<<0, 0>>] = PenColor
    /\ fb[<<1, 0>>] = PenColor
    /\ fb[<<2, 1>>] = PenColor
    /\ fb[<<0, 1>>] = 0

\* C13: a tick whose current sample has no contact writes no pixel, whatever
\* the previous sample was and whatever position the current one carries.
C13_NoContactNoWrite ==
    (Ticked /\ ~pressed) => fb = ev.before

C13_Witness ==
    /\ Ticked
    /\ last_pressed
    /\ ~pressed
    /\ last_location = <<2, 1>>
    /\ location = <<0, 0>>
    /\ ev.release # <<>>
    /\ ev.before = [BlankBitmap EXCEPT ![<<2, 1>>] = PenColor]

\* C14: a segment that lies partly off the bitmap is drawn past its
\* out-of-range pixels: the motion tick sets exactly the pixels of the
\* segment that are on the bitmap, those emitted after an out-of-range one
\* included, and raises nothing.
C14_SegmentClippedNotCut ==
    (Ticked /\ ev.motion # <<>> /\ ev.press = <<>>) =>
        LET seg == SeqToSet(GotoPixels(ev.motion[1][1], ev.motion[1][2]))
        IN  /\ \A cell \in Cells :
                  fb[cell] = IF cell \in seg THEN pencolor ELSE ev.before[cell]
            /\ ~ev.raised
            /\ pc = "running"

C14_Witness ==
    /\ Ticked
    /\ ev.motion = <<<<<<FbW, 0>>, <<0, 1>>>>>>
    /\ ~InBitmap(FbW, 0)
    /\ fb[<<0, 1>>] = PenColor
    /\ fb[<<FbW - 1, 0>>] = PenColor

\* ================================================ rasterizer claims, part 2
\* C15: whatever the slope and the direction of the walk, the first pixel
\* emitted is the start point and the last one is the end point.
C15_EndpointsEmitted ==
    /\ Len(g.out) >= 1 => g.out[1] = gstart
    /\ gdone =>
          /\ Len(g.out) >= 1
          /\ g.out[Len(g.out)] = gend
          /\ g.x = gend[1]
          /\ g.y = gend[2]

C15_Witness ==
    /\ gdone
    /\ gstart = <<2, 3>>
    /\ gend = <<1, -1>>
    /\ g.steep
    /\ g.rev
    /\ g.out = <<<<2, 3>>, <<2, 2>>, <<2, 1>>, <<1, 0>>, <<1, -1>>>>

\* Consecutive pixels of the emitted path differ by exactly 1 along the
\* dominant axis and by at most 1 along the other one.
PathConnected ==
    LET k == DominantAxis(gstart, gend)
        o == 3 - k
    IN  \A i \in 1..(Len(g.out) - 1) :
            /\ Abs(g.out[i + 1][k] - g.out[i][k]) = 1
            /\ Abs(g.out[i + 1][o] - g.out[i][o]) <= 1

\* C16 (as stated): the path is 8-connected, and after every loop step
\* 0 <= err < dx.
C16_ConnectedAndErrBelowDx ==
    /\ PathConnected
    /\ Len(g.out) >= 1 => (0 <= g.err2 /\ g.err2 < 2 * g.dx)

\* C16 (amended): the path is 8-connected, and after every loop step
\* 0 <= err < dx when the endpoints differ; for a single point dx = 0 and
\* err stays 0.
C16_ConnectedAndErrInRange ==
    /\ PathConnected
    /\ (Len(g.out) >= 1 /\ gstart # gend) =>
          (0 <= g.err2 /\ g.err2 < 2 * g.dx)
    /\ (Len(g.out) >= 1 /\ gstart = gend) => (g.dx = 0 /\ g.err2 = 0)

C16_Witness ==
    /\ ~gdone
    /\ gstart = <<0, 0>>
    /\ gend = <<4, 2>>
    /\ g.out = <<<<0, 0>>, <<1, 0>>, <<2, 1>>>>
    /\ g.y0 = 1
    /\ g.err2 = 0

\* _goto with the bias taken as the integer floor(dx / 2).
GotoEntryFloor(start, end) ==
    LET e == GotoEntry(start, end, 0, 0)
    IN  [e EXCEPT !.err2 = 2 * (e.dx \div 2)]

\* C18: starting the error accumulator at the exact half dx / 2 or at
\* floor(dx / 2) gives the same sequence of pixels.
C18_HalfOrFloorSamePixels ==
    gdone => g.out = GotoRun(GotoEntryFloor(gstart, gend)).out

C18_Witness ==
    /\ gdone
    /\ gstart = <<0, 0>>
    /\ gend = <<3, 2>>
    /\ g.dx = 3
    /\ GotoEntryFloor(gstart, gend).err2 = 2
    /\ g.out = <<<<0, 0>>, <<1, 1>>, <<2, 1>>, <<3, 2>>>>

\* ============================================================ stroke claims
\* The pixels of the segments between consecutive distinct positions of pts.
RECURSIVE SegmentsOf(_)
SegmentsOf(pts) ==
    IF Len(pts) < 2 THEN {}
    ELSE (IF pts[1] # pts[2] THEN SeqToSet(GotoPixels(pts[1], pts[2])) ELSE {})
         \cup SegmentsOf(Tail(pts))

\* A pixel sequence in which neighbours are at most one cell apart on each
\* axis.
EightConnected(px) ==
    \A i \in 1..(Len(px) - 1) :
        /\ Abs(px[i + 1][1] - px[i][1]) <= 1
        /\ Abs(px[i + 1][2] - px[i][2]) <= 1

\* C19: during a run of contact ticks with positions p1..pn on the display,
\* the cells painted are exactly p1 and the segments between consecutive
\* distinct positions; every pi holds the pen colour, every segment starts
\* at the pixel where the previous one ended and is 8-connected.
C19_StrokeIsConnectedPath ==
    (stroke.pts # <<>> /\ \A i \in 1..Len(stroke.pts) : stroke.pts[i] \in Cells)
    =>
    LET pts == stroke.pts
        path == {pts[1]} \cup SegmentsOf(pts)
    IN  /\ \A cell \in Cells :
              fb[cell] = IF cell \in path THEN pencolor ELSE stroke.base[cell]
        /\ \A i \in 1..Len(pts) : fb[pts[i]] = pencolor
        /\ location = pts[Len(pts)]
        /\ \A i \in 1..(Len(pts) - 1) :
              pts[i] # pts[i + 1] =>
                 LET seg == GotoPixels(pts[i], pts[i + 1])
                 IN  /\ seg[1] = pts[i]
                     /\ seg[Len(seg)] = pts[i + 1]
                     /\ EightConnected(seg)

C19_Witness ==
    /\ stroke.pts = <<<<0, 0>>, <<2, 1>>, <<0, 1>>>>
    /\ stroke.base = BlankBitmap
    /\ fb[<<1, 0>>] = PenColor
    /\ fb[<<1, 1>>] = PenColor
    /\ fb[<<2, 0>>] = 0

\* ========================================================= liveness claims
\* C17: with a pointer source that reports a position whenever it reports
\* contact, no handler raises, every call of the rasterizer returns, so
\* every tick completes, and poll is called again and again, once per tick.
C17_LoopIsLive ==
    /\ [](pc \in {"running", "goto"} /\ ~ev.raised)
    /\ [](pc = "goto" => <>(pc = "running" /\ gdone))
    /\ []<>(pc = "running" /\ ticks = 0)
    /\ []<>(pc = "running" /\ ticks = 1)
    /\ [][ticks' # ticks => (pc = "running" /\ ev'.polls = 1)]_vars

C17_Witness ==
    /\ pc = "goto"
    /\ gstart = <<FbW - 1, FbH - 1>>
    /\ gend = <<0, 0>>
    /\ GotoCond(g)
    /\ Len(g.out) = 2
    /\ ticks = 0
    /\ fb[<<FbW - 1, FbH - 1>>] = PenColor

====
